---- MODULE Spec2Model ----
(***************************************************************************)
(* Invoice OCR pipeline: total detection (src/src/ocr/compare_ocr.py),     *)
(* candidate arbitration (src/scripts/process_orange_factures.py,          *)
(* src/src/decision/select_best_ocr.py) and field normalisation            *)
(* (src/src/normalisation.py).                                             *)
(*                                                                         *)
(* A Python str is a sequence of one-character strings.  Characters        *)
(* outside ASCII carry a name: "NBSP" is U+00A0, "EURO" is the euro sign,  *)
(* "a_grave" is U+00E0, "POUND" the pound sign, "YEN" the yen sign.        *)
(* Python's None is the one-element sequence <<"None">>, which is no       *)
(* character sequence, so that every value stays comparable.               *)
(***************************************************************************)
EXTENDS Integers, Sequences, FiniteSets, TLC

VARIABLES
    text_block,   \* find_total_in_text: its argument
    total,        \* find_total_in_text: its return value
    ft_pc,        \* find_total_in_text: "idle" | "call" | "done"
    ocr_o,        \* arbitration: what the OCR engine does on the original image
    ocr_p,        \* arbitration: what the OCR engine does on the preprocessed image
    decision,     \* arbitration: the dict the call returned
    arb_fn,       \* arbitration: "none" | "select_best_orange" | "select_best"
    arb_exc,      \* arbitration: the call that raised out of the arbiter, or "none"
    arb_pc,       \* arbitration: "idle" | "call" | "returned" | "raised"
    value,        \* normalisation: the argument of the normalizer called
    n_fn,         \* normalisation: the normalizer called, or "none"
    n_out,        \* normalisation: what it returned, or the exception it raised
    n_pc,         \* normalisation: "idle" | "call" | "returned" | "raised"
    data,         \* structuring: the decision JSON structure_ocr reads
    structured,   \* structuring: the dict structure_ocr wrote and returned
    st_pc,        \* structuring: "idle" | "call" | "returned"
    b_fn,         \* batch: "none" | "process_images" | "process_orange_factures"
    b_exists,     \* batch: the input folder exists
    all_images,   \* batch: the image files found, sorted
    idx,          \* batch: the position of the loop, from 1; 0 before the loop
    b_step,       \* batch: the step of the current document
    results,      \* batch: the summary of process_images
    stats,        \* batch: the counters of process_orange_factures
    all_decisions,\* batch: the decisions process_orange_factures collected
    b_pc,         \* batch: "idle" | "start" | "loop" | "summary" | "returned" | "raised" | "exited"
    b_ret,        \* batch: what process_images returned: "None" | "True" | "False"
    exit_status   \* batch: the exit status of the process: "none" | "0" | "1"

vars == <<text_block, total, ft_pc, ocr_o, ocr_p, decision, arb_fn, arb_exc, arb_pc,
          value, n_fn, n_out, n_pc, data, structured, st_pc,
          b_fn, b_exists, all_images, idx, b_step, results, stats, all_decisions,
          b_pc, b_ret, exit_status>>

\* the number of lines of a text handed to find_total_in_text
MaxLines == 3

\* the number of lines the OCR engine recognises on one image
MaxOcrLines == 6

\* the number of pieces an amount string handed to the normalizers is made of
MaxParts == 3

\* the canonical amounts 0.00 .. MaxRoundTripCents / 100 handed to normalize_amount
MaxRoundTripCents == 300

\* the number of recognised lines in a decision JSON handed to structure_ocr
MaxStructLines == 3

\* the number of image files in the input folder of a batch run
MaxImages == 3

None == <<"None">>
LF == "\n"
NBSP == "NBSP"
EURO == "EURO"
POUND == "POUND"
YEN == "YEN"

(***************************************************************************)
(* The three parts of the pipeline are called independently; a part that   *)
(* is not under call stays idle.                                           *)
(***************************************************************************)
FindTotalVars == <<text_block, total, ft_pc>>
FindTotalIdle == text_block = <<>> /\ total = None /\ ft_pc = "idle"

NoDecision == [chosen |-> "none"]
NoOcr == [raises |-> FALSE, page |-> <<>>]

ArbiterVars == <<ocr_o, ocr_p, decision, arb_fn, arb_exc, arb_pc>>
ArbiterIdle ==
    /\ ocr_o = NoOcr
    /\ ocr_p = NoOcr
    /\ decision = NoDecision
    /\ arb_fn = "none"
    /\ arb_exc = "none"
    /\ arb_pc = "idle"

NormalizerVars == <<value, n_fn, n_out, n_pc>>
NormalizerIdle == value = None /\ n_fn = "none" /\ n_out = None /\ n_pc = "idle"

NoData == [lines |-> <<>>]
NoStructured == [blocks |-> <<>>]

StructurerVars == <<data, structured, st_pc>>
StructurerIdle == data = NoData /\ structured = NoStructured /\ st_pc = "idle"

NoResults == [processed |-> <<>>, failed |-> <<>>, total |-> 0]
NoStats == [total |-> 0, ok |-> 0, error |-> 0]

BatchVars == <<b_fn, b_exists, all_images, idx, b_step, results, stats, all_decisions,
               b_pc, b_ret, exit_status>>
BatchIdle ==
    /\ b_fn = "none"
    /\ b_exists = FALSE
    /\ all_images = <<>>
    /\ idx = 0
    /\ b_step = "none"
    /\ results = NoResults
    /\ stats = NoStats
    /\ all_decisions = <<>>
    /\ b_pc = "idle"
    /\ b_ret = "None"
    /\ exit_status = "none"

(***************************************************************************)
(* Character classes and string helpers of the Python runtime.             *)
(***************************************************************************)
Digits == {"0", "1", "2", "3", "4", "5", "6", "7", "8", "9"}

DigitVal(c) ==
    CASE c = "0" -> 0 [] c = "1" -> 1 [] c = "2" -> 2 [] c = "3" -> 3
      [] c = "4" -> 4 [] c = "5" -> 5 [] c = "6" -> 6 [] c = "7" -> 7
      [] c = "8" -> 8 [] c = "9" -> 9

DigitChar(n) ==
    CASE n = 0 -> "0" [] n = 1 -> "1" [] n = 2 -> "2" [] n = 3 -> "3"
      [] n = 4 -> "4" [] n = 5 -> "5" [] n = 6 -> "6" [] n = 7 -> "7"
      [] n = 8 -> "8" [] n = 9 -> "9"

UpperLetters ==
    <<"A", "B", "C", "D", "E", "F", "G", "H", "I", "J", "K", "L", "M",
      "N", "O", "P", "Q", "R", "S", "T", "U", "V", "W", "X", "Y", "Z">>
LowerLetters ==
    <<"a", "b", "c", "d", "e", "f", "g", "h", "i", "j", "k", "l", "m",
      "n", "o", "p", "q", "r", "s", "t", "u", "v", "w", "x", "y", "z">>
UpperSet == {UpperLetters[i] : i \in 1..Len(UpperLetters)}
LowerSet == {LowerLetters[i] : i \in 1..Len(LowerLetters)}

\* str.lower() on one character
LowerChar(c) ==
    IF c \in UpperSet
    THEN LowerLetters[CHOOSE i \in 1..Len(UpperLetters) : UpperLetters[i] = c]
    ELSE c

\* str.upper() on one character
UpperChar(c) ==
    IF c \in LowerSet
    THEN UpperLetters[CHOOSE i \in 1..Len(LowerLetters) : LowerLetters[i] = c]
    ELSE c

Lower(s) == [i \in 1..Len(s) |-> LowerChar(s[i])]
Upper(s) == [i \in 1..Len(s) |-> UpperChar(s[i])]

\* s[i-1:].startswith(k), i 1-based
StartsAt(s, i, k) ==
    /\ i + Len(k) - 1 <= Len(s)
    /\ \A j \in 1..Len(k) : s[i + j - 1] = k[j]

\* k in s
Contains(s, k) == \E i \in 1..(Len(s) + 1) : StartsAt(s, i, k)

\* s.replace(c, "") for every c of cs
RemoveChars(s, cs) == SelectSeq(s, LAMBDA c : c \notin cs)

\* s.replace(a, b) for single characters
ReplaceChar(s, a, b) == [i \in 1..Len(s) |-> IF s[i] = a THEN b ELSE s[i]]

\* the first line feed at or after i, Len(s) + 1 when there is none
RECURSIVE NextLF(_, _)
NextLF(s, i) ==
    IF i > Len(s) THEN Len(s) + 1
    ELSE IF s[i] = LF THEN i
    ELSE NextLF(s, i + 1)

\* str.splitlines() of the text from position i on: no empty last line
RECURSIVE SplitFrom(_, _)
SplitFrom(s, i) ==
    IF i > Len(s) THEN <<>>
    ELSE LET e == NextLF(s, i)
         IN <<SubSeq(s, i, e - 1)>> \o SplitFrom(s, e + 1)

splitlines(s) == SplitFrom(s, 1)

\* "\n".join(parts)
RECURSIVE JoinLF(_)
JoinLF(parts) ==
    IF Len(parts) = 0 THEN <<>>
    ELSE IF Len(parts) = 1 THEN parts[1]
    ELSE parts[1] \o <<LF>> \o JoinLF(Tail(parts))

(***************************************************************************)
(* AMOUNT_RE: group 1 is \d{1,3}(?:[ NBSP,]\d{3})*(?:[.,]\d{2}), then *)
(* \s*(EURO|EUR|DT|TND)? with IGNORECASE.  The matcher is Python's: the    *)
(* leftmost start, greedy quantifiers, backtracking to fewer repetitions.  *)
(***************************************************************************)
IsDigitAt(s, i) == i >= 1 /\ i <= Len(s) /\ s[i] \in Digits

\* \d{n} at position i
DigitsRun(s, i, n) == \A k \in 0..(n - 1) : IsDigitAt(s, i + k)

ThousandsSep == {" ", NBSP, ","}
DecimalSep == {".", ","}
Whitespace == {" ", NBSP, LF}

\* the greatest number of groups [ NBSP,]\d{3} that match from position j on
RECURSIVE GroupsAt(_, _)
GroupsAt(s, j) ==
    IF j <= Len(s) /\ s[j] \in ThousandsSep /\ DigitsRun(s, j + 1, 3)
    THEN 1 + GroupsAt(s, j + 4)
    ELSE 0

\* [.,]\d{2} at position j
DecimalAt(s, j) == j <= Len(s) /\ s[j] \in DecimalSep /\ DigitsRun(s, j + 1, 2)

\* the <<d, g>> (leading digits, thousands groups) with which group 1
\* matches at position i
AmountShapes(s, i) ==
    {dg \in (1..3) \X (0..(Len(s) \div 4)) :
        /\ DigitsRun(s, i, dg[1])
        /\ dg[2] <= GroupsAt(s, i + dg[1])
        /\ DecimalAt(s, i + dg[1] + 4 * dg[2])}

\* the position of the last character of group 1 for a match that starts at
\* i, 0 when there is none: the most leading digits first, then the most groups
AmountEndAt(s, i) ==
    IF ~IsDigitAt(s, i) THEN 0
    ELSE LET shapes == AmountShapes(s, i)
         IN IF shapes = {} THEN 0
            ELSE LET d == CHOOSE x \in 1..3 :
                             /\ \E dg \in shapes : dg[1] = x
                             /\ \A dg \in shapes : dg[1] <= x
                     g == CHOOSE y \in 0..(Len(s) \div 4) :
                             /\ <<d, y>> \in shapes
                             /\ \A dg \in shapes : dg[1] = d => dg[2] <= y
                 IN i + d + 4 * g + 2

\* \s* from position j on: the first position that is not whitespace
RECURSIVE SkipSpace(_, _)
SkipSpace(s, j) ==
    IF j <= Len(s) /\ s[j] \in Whitespace THEN SkipSpace(s, j + 1) ELSE j

CurrencyTokens == << <<EURO>>, <<"e", "u", "r">>, <<"d", "t">>, <<"t", "n", "d">> >>

\* (EURO|EUR|DT|TND)? at position j, ignoring case: the length it consumes
CurrencyLenAt(s, j) ==
    LET low == Lower(s)
        hits == {k \in 1..Len(CurrencyTokens) : StartsAt(low, j, CurrencyTokens[k])}
    IN IF hits = {} THEN 0
       ELSE Len(CurrencyTokens[CHOOSE k \in hits : \A h \in hits : k <= h])

\* the position after the whole match whose group 1 ends at e
MatchEnd(s, e) ==
    LET j == SkipSpace(s, e + 1) IN j + CurrencyLenAt(s, j)

\* AMOUNT_RE.search(s) from position i on: the start of the leftmost match,
\* 0 when there is none
RECURSIVE SearchFrom(_, _)
SearchFrom(s, i) ==
    IF i > Len(s) THEN 0
    ELSE IF AmountEndAt(s, i) > 0 THEN i
    ELSE SearchFrom(s, i + 1)

\* match.group(1) of AMOUNT_RE.search(s), None when there is no match
SearchGroup1(s) ==
    LET i == SearchFrom(s, 1)
    IN IF i = 0 THEN None ELSE SubSeq(s, i, AmountEndAt(s, i))

\* [m[0] for m in AMOUNT_RE.findall(s)], scanning from position i on
RECURSIVE FindAllFrom(_, _)
FindAllFrom(s, i) ==
    LET b == SearchFrom(s, i)
    IN IF b = 0 THEN <<>>
       ELSE LET e == AmountEndAt(s, b)
            IN <<SubSeq(s, b, e)>> \o FindAllFrom(s, MatchEnd(s, e))

findall(s) == FindAllFrom(s, 1)

(***************************************************************************)
(* float(x) and str(f) for the strings the total detection handles.  A     *)
(* cleaned amount is digits and dots and ends in a dot and two digits;     *)
(* float() takes it iff that dot is its only one.  Such a float is held    *)
(* as its number of hundredths, which orders and prints as the float does  *)
(* below 10^16.                                                            *)
(***************************************************************************)
DotCount(s) == Len(SelectSeq(s, LAMBDA c : c = "."))

\* int() of a digit string ("" is 0)
RECURSIVE DigitsValue(_)
DigitsValue(ds) ==
    IF Len(ds) = 0 THEN 0
    ELSE 10 * DigitsValue(SubSeq(ds, 1, Len(ds) - 1)) + DigitVal(ds[Len(ds)])

\* str(n) for a natural number
RECURSIVE NatStr(_)
NatStr(n) ==
    IF n < 10 THEN <<DigitChar(n)>>
    ELSE NatStr(n \div 10) \o <<DigitChar(n % 10)>>

\* float(x) succeeds on a cleaned amount
FloatParses(x) == DotCount(x) = 1

\* float(x) of a cleaned amount that parses, in hundredths
FloatCents(x) == DigitsValue(RemoveChars(x, {"."}))

\* str(f) of a float of c hundredths: the shortest digits that read back
StrFloat(c) ==
    NatStr(c \div 100) \o <<".">> \o
        (IF c % 100 = 0 THEN <<"0">>
         ELSE IF c % 10 = 0 THEN <<DigitChar((c % 100) \div 10)>>
         ELSE <<DigitChar((c % 100) \div 10), DigitChar(c % 10)>>)

(***************************************************************************)
(* Total detection                                                         *)
(***************************************************************************)
TOTAL_KEYWORDS ==
    << <<"t", "o", "t", "a", "l", " ", "t", ".", "t", ".", "c">>,
       <<"t", "o", "t", "a", "l", " ", "t", "t", "c">>,
       <<"t", "o", "t", "a", "l", " ", "a_grave", " ", "p", "a", "y", "e", "r">>,
       <<"t", "o", "t", "a", "l", " ", "t", ".", "t", ".", "c", ".">>,
       <<"t", "o", "t", "a", "l">> >>

\* any(k in low for k in TOTAL_KEYWORDS)
HasKeyword(line) ==
    LET low == Lower(line)
    IN \E k \in 1..Len(TOTAL_KEYWORDS) : Contains(low, TOTAL_KEYWORDS[k])

\* .replace(" ", "").replace("NBSP", "").replace(",", ".")
Clean(m) == ReplaceChar(RemoveChars(m, {" ", NBSP}), ",", ".")

\* KeywordScan with a return at the first keyword line, amount or not
RECURSIVE KeywordScanFirstHit(_, _)
KeywordScanFirstHit(lines, i) ==
    IF i = 0 THEN None
    ELSE IF HasKeyword(lines[i])
         THEN (IF SearchGroup1(lines[i]) # None
               THEN Clean(SearchGroup1(lines[i]))
               ELSE None)
         ELSE KeywordScanFirstHit(lines, i - 1)

\* KeywordScan over lines instead of reversed(lines)
RECURSIVE KeywordScanTopDown(_, _)
KeywordScanTopDown(lines, i) ==
    LET n == Len(lines) + 1 - i
    IN IF i = 0 THEN None
       ELSE IF HasKeyword(lines[n]) /\ SearchGroup1(lines[n]) # None
            THEN Clean(SearchGroup1(lines[n]))
            ELSE KeywordScanTopDown(lines, i - 1)

\* the loop over reversed(lines), from line i upwards: the cleaned first
\* amount of the first keyword line that holds one, None when the loop ends
RECURSIVE KeywordScan(_, _)
KeywordScan(lines, i) ==
    IF i = 0 THEN None
    ELSE IF HasKeyword(lines[i]) /\ SearchGroup1(lines[i]) # None
         THEN Clean(SearchGroup1(lines[i]))
         ELSE KeywordScan(lines, i - 1)

\* max(nums) in hundredths
MaxCents(cleaned) ==
    LET nums == {FloatCents(cleaned[k]) : k \in 1..Len(cleaned)}
    IN CHOOSE n \in nums : \A o \in nums : o <= n

\* Fallback with "except ValueError: return None"
FallbackNoLastResort(text) ==
    LET matches == findall(text)
        cleaned == [k \in 1..Len(matches) |-> Clean(matches[k])]
    IN IF Len(matches) = 0 THEN None
       ELSE IF \A k \in 1..Len(cleaned) : FloatParses(cleaned[k])
            THEN StrFloat(MaxCents(cleaned))
            ELSE None

\* step 2 of find_total_in_text: the largest amount of the whole text
Fallback(text) ==
    LET matches == findall(text)
        cleaned == [k \in 1..Len(matches) |-> Clean(matches[k])]
    IN IF Len(matches) = 0 THEN None
       ELSE IF \A k \in 1..Len(cleaned) : FloatParses(cleaned[k])
            THEN StrFloat(MaxCents(cleaned))
            ELSE cleaned[Len(cleaned)]

find_total_in_text(text) ==
    LET lines == splitlines(text)
        byKeyword == KeywordScan(lines, Len(lines))
    IN IF byKeyword # None THEN byKeyword ELSE Fallback(text)

(***************************************************************************)
(* Texts handed to find_total_in_text: up to MaxLines lines, joined by     *)
(* line feeds as run_ocr_on_image joins the recognised lines.              *)
(***************************************************************************)
W_TOTAL == <<"T", "O", "T", "A", "L">>
W_Total == <<"T", "o", "t", "a", "l">>
W_total == <<"t", "o", "t", "a", "l">>
A_12_00 == <<"1", "2", ".", "0", "0">>
A_12_50 == <<"1", "2", ",", "5", "0">>
A_45_50 == <<"4", "5", ".", "5", "0">>
A_999_99 == <<"9", "9", "9", ".", "9", "9">>
A_1_234_56_fr == <<"1", " ", "2", "3", "4", ",", "5", "6">>
A_1_234_56_en == <<"1", ",", "2", "3", "4", ".", "5", "6">>

SampleLines ==
    { <<"x">>,
      W_TOTAL,
      A_12_00,
      A_999_99 \o <<" ">> \o A_45_50,
      W_TOTAL \o <<" ", "T", "T", "C", " ">> \o A_1_234_56_fr \o <<" ", EURO>>,
      W_total \o <<" ">> \o A_12_00 \o <<" ">> \o A_999_99,
      A_1_234_56_en,
      W_Total \o <<" ">> \o A_1_234_56_en,
      A_12_50,
      <<>> }

\* the sequences of at most n elements of S
SeqsUpTo(S, n) == UNION {[1..k -> S] : k \in 0..n}

Texts == {JoinLF(ls) : ls \in SeqsUpTo(SampleLines, MaxLines)}

InitFindTotal ==
    /\ text_block \in Texts
    /\ total = None
    /\ ft_pc = "call"
    /\ ArbiterIdle
    /\ NormalizerIdle
    /\ StructurerIdle
    /\ BatchIdle

\* one call of find_total_in_text(text_block)
FindTotal ==
    /\ ft_pc = "call"
    /\ total' = find_total_in_text(text_block)
    /\ ft_pc' = "done"
    /\ UNCHANGED text_block
    /\ UNCHANGED <<ArbiterVars, NormalizerVars, StructurerVars, BatchVars>>

NextFindTotal == FindTotal

SpecFindTotal == InitFindTotal /\ [][NextFindTotal]_vars

(***************************************************************************)
(* Properties of find_total_in_text                                        *)
(***************************************************************************)
\* m without its spaces and NBSPs and with a dot for every comma
RECURSIVE StripAndDot(_)
StripAndDot(m) ==
    IF Len(m) = 0 THEN <<>>
    ELSE IF Head(m) \in {" ", NBSP} THEN StripAndDot(Tail(m))
    ELSE IF Head(m) = "," THEN <<".">> \o StripAndDot(Tail(m))
    ELSE <<Head(m)>> \o StripAndDot(Tail(m))

TextLines == splitlines(text_block)

\* the lines that contain a total keyword / an amount pattern
KeywordLines == {i \in 1..Len(TextLines) : HasKeyword(TextLines[i])}
AmountLines == {i \in 1..Len(TextLines) : SearchGroup1(TextLines[i]) # None}

Highest(S) == CHOOSE i \in S : \A j \in S : j <= i

\* the amounts of the whole text, each normalized
NormalizedMatches ==
    LET ms == findall(text_block) IN [k \in 1..Len(ms) |-> StripAndDot(ms[k])]

AllParse == \A k \in 1..Len(NormalizedMatches) : FloatParses(NormalizedMatches[k])

\* C4: when the bottom-most keyword line holds an amount pattern, the result
\* is the leftmost amount of that line without spaces/NBSP and with a dot for
\* each comma, whatever the other lines hold.
C4_KeywordPath ==
    (ft_pc = "done" /\ KeywordLines # {} /\ Highest(KeywordLines) \in AmountLines)
        => total = StripAndDot(SearchGroup1(TextLines[Highest(KeywordLines)]))

\* C4 witness: the bottom-most keyword line holds two amounts, the first one
\* the smaller, with another keyword line holding an amount above it.
C4_Witness ==
    /\ ft_pc = "done"
    /\ KeywordLines # {}
    /\ Highest(KeywordLines) \in AmountLines
    /\ Len(findall(TextLines[Highest(KeywordLines)])) = 2
    /\ \E i \in KeywordLines \cap AmountLines : i < Highest(KeywordLines)
    /\ total = A_12_00

\* C4 reference case: the last line 'TOTAL TTC 1 234,56 EURO' gives '1234.56'.
C4_Reference ==
    /\ ft_pc = "done"
    /\ Len(TextLines) = MaxLines
    /\ TextLines[Len(TextLines)] =
           W_TOTAL \o <<" ", "T", "T", "C", " ">> \o A_1_234_56_fr \o <<" ", EURO>>
    /\ total = <<"1", "2", "3", "4", ".", "5", "6">>

\* C5 as stated: when the bottom-most keyword line holds no amount, the
\* result is the whole-text fallback, even with an amount on a keyword line
\* higher up.
C5_AbandonsScan ==
    (ft_pc = "done" /\ KeywordLines # {} /\ Highest(KeywordLines) \notin AmountLines)
        => total = Fallback(text_block)

\* C5 amended: when the bottom-most keyword line holds no amount, the scan
\* goes on upwards: the result is the normalized leftmost amount of the
\* lowest keyword line that holds one, and the whole-text fallback only when
\* no keyword line holds an amount.
C5_ScanContinues ==
    (ft_pc = "done" /\ KeywordLines # {} /\ Highest(KeywordLines) \notin AmountLines)
        => IF KeywordLines \cap AmountLines # {}
           THEN total = StripAndDot(SearchGroup1(
                            TextLines[Highest(KeywordLines \cap AmountLines)]))
           ELSE total = Fallback(text_block)

\* C5 witness: the bottom-most keyword line holds no amount, a keyword line
\* above it holds one, and the text holds a larger amount than that one.
C5_Witness ==
    /\ ft_pc = "done"
    /\ KeywordLines # {}
    /\ Highest(KeywordLines) \notin AmountLines
    /\ KeywordLines \cap AmountLines # {}
    /\ total = A_12_00
    /\ Fallback(text_block) = A_999_99

\* C6 as stated: when no keyword line yields an amount and every normalized
\* amount of the text parses as a float, the result is, character for
\* character, the normalized match of the greatest value.
C6_FallbackIsNormalizedMatch ==
    (/\ ft_pc = "done"
     /\ KeywordLines \cap AmountLines = {}
     /\ Len(NormalizedMatches) > 0
     /\ AllParse)
        => \E k \in 1..Len(NormalizedMatches) :
              /\ total = NormalizedMatches[k]
              /\ \A j \in 1..Len(NormalizedMatches) :
                    FloatCents(NormalizedMatches[j]) <= FloatCents(NormalizedMatches[k])

\* C7: the result is None exactly when the text holds no amount pattern at
\* all; when no keyword line yields an amount and no normalized amount
\* parses as a float, the result is the last normalized match.
C7_NoneIffNoAmount ==
    ft_pc = "done" =>
        /\ (total = None) <=> (Len(findall(text_block)) = 0)
        /\ (/\ KeywordLines \cap AmountLines = {}
            /\ Len(NormalizedMatches) > 0
            /\ \A k \in 1..Len(NormalizedMatches) : ~FloatParses(NormalizedMatches[k]))
               => total = NormalizedMatches[Len(NormalizedMatches)]

\* C7 witness: no keyword line yields an amount, the text holds amounts and
\* none of them parses as a float; the result is not None.
C7_Witness ==
    /\ ft_pc = "done"
    /\ KeywordLines \cap AmountLines = {}
    /\ Len(NormalizedMatches) > 1
    /\ \A k \in 1..Len(NormalizedMatches) : ~FloatParses(NormalizedMatches[k])
    /\ total # None

\* C7 witness of the other direction: a text of several lines without any
\* amount pattern gives None.
C7_WitnessNone ==
    /\ ft_pc = "done"
    /\ Len(TextLines) = MaxLines
    /\ KeywordLines # {}
    /\ Len(findall(text_block)) = 0
    /\ total = None

(***************************************************************************)
(* OCR adapter and arbitration.  A confidence is a number of thousandths;  *)
(* an average confidence and a score are numbers of 1/(1000 * Scale), so   *)
(* that the mean of up to MaxOcrLines confidences is exact.  Arithmetic is *)
(* that of the reals, not of binary floats.                                *)
(***************************************************************************)
RECURSIVE Fact(_)
Fact(n) == IF n <= 1 THEN 1 ELSE n * Fact(n - 1)

Scale == Fact(MaxOcrLines)

\* 0.05 for a detected total, the cap of the line bonus, and the margin
TOTAL_BONUS == 50
LINES_CAP == 50
CONF_MARGIN == 20

\* select_best_ocr.py has its own copies
TOTAL_BONUS_ocr == 50
LINES_CAP_ocr == 50
CONF_MARGIN_ocr == 20

Min(a, b) == IF a <= b THEN a ELSE b

ConfLevels == {500, 520}

OcrTexts ==
    { <<"x">>,
      W_Total \o <<" ">> \o A_1_234_56_en,
      W_TOTAL \o <<" ", "T", "T", "C", " ">> \o A_1_234_56_fr \o <<" ", EURO>> }

\* what ocr.ocr() recognises on a page: n lines, the first one with text t
\* and confidence c1, the others with text 'x' and confidence c2
MakePage(n, c1, c2, t) ==
    [k \in 1..n |-> IF k = 1 THEN [text |-> t, conf |-> c1]
                    ELSE [text |-> <<"x">>, conf |-> c2]]

Pages ==
    {MakePage(n, c[1], c[2], t) :
        n \in 0..MaxOcrLines, c \in ConfLevels \X ConfLevels, t \in OcrTexts}

\* the engine either raises or returns a page
EngineOutcomes ==
    {[raises |-> TRUE, page |-> <<>>]} \cup {[raises |-> FALSE, page |-> pg] : pg \in Pages}

RECURSIVE SumConf(_)
SumConf(page) ==
    IF Len(page) = 0 THEN 0 ELSE Head(page).conf + SumConf(Tail(page))

\* statistics.mean(confs) if confs else 0.0
MeanConf(page) ==
    IF Len(page) = 0 THEN 0 ELSE (SumConf(page) * Scale) \div Len(page)

\* run_ocr_on_image on an image whose engine call returns page
run_ocr_on_image(page) ==
    [extracted |-> page,
     avg_conf |-> MeanConf(page),
     full_text |-> JoinLF([k \in 1..Len(page) |-> page[k].text])]

\* ext, conf, text = [], 0.0, ""
EmptyOcr == [extracted |-> <<>>, avg_conf |-> 0, full_text |-> <<>>]

\* score_result with the line bonus uncapped
score_result_uncapped(avg_conf, tot, num_lines) ==
    avg_conf + (IF tot # None THEN TOTAL_BONUS * Scale ELSE 0)
             + num_lines * 10 * Scale

\* process_orange_factures.score_result
score_result(avg_conf, tot, num_lines) ==
    avg_conf + (IF tot # None THEN TOTAL_BONUS * Scale ELSE 0)
             + Min(num_lines * 10 * Scale, LINES_CAP * Scale)

\* select_best_ocr.score_result
score_result_ocr(avg_conf, tot, num_lines) ==
    avg_conf + (IF tot # None THEN TOTAL_BONUS_ocr * Scale ELSE 0)
             + Min(num_lines * 10 * Scale, LINES_CAP_ocr * Scale)

\* the try/except around run_ocr_on_image in select_best_orange
OcrOrEmpty(out) == IF out.raises THEN EmptyOcr ELSE run_ocr_on_image(out.page)

\* line 76 with ">=" for ">" and no margin
orange_choose_no_margin(ro, rp, total_o, total_p, score_o, score_p) ==
    IF score_p >= score_o /\ Len(rp.extracted) > 0
    THEN [chosen |-> "preprocessed", image |-> "image_original.name",
          avg_conf |-> rp.avg_conf, total |-> total_p, lines |-> rp.extracted,
          score |-> score_p,
          scores |-> [original |-> score_o, preprocessed |-> score_p]]
    ELSE [chosen |-> "original", image |-> "image_original.name",
          avg_conf |-> ro.avg_conf, total |-> total_o, lines |-> ro.extracted,
          score |-> score_o,
          scores |-> [original |-> score_o, preprocessed |-> score_p]]

\* select_best_orange, lines 75-103: the choice and the dict returned
orange_choose(ro, rp, total_o, total_p, score_o, score_p) ==
    IF score_p > score_o + CONF_MARGIN * Scale /\ Len(rp.extracted) > 0
    THEN [chosen |-> "preprocessed", image |-> "image_original.name",
          avg_conf |-> rp.avg_conf, total |-> total_p, lines |-> rp.extracted,
          score |-> score_p,
          scores |-> [original |-> score_o, preprocessed |-> score_p]]
    ELSE [chosen |-> "original", image |-> "image_original.name",
          avg_conf |-> ro.avg_conf, total |-> total_o, lines |-> ro.extracted,
          score |-> score_o,
          scores |-> [original |-> score_o, preprocessed |-> score_p]]

\* select_best_orange, lines 71-73: the two scores
orange_scores(ro, rp, total_o, total_p) ==
    orange_choose(ro, rp, total_o, total_p,
        IF Len(ro.extracted) > 0
        THEN score_result(ro.avg_conf, total_o, Len(ro.extracted)) ELSE 0,
        IF Len(rp.extracted) > 0
        THEN score_result(rp.avg_conf, total_p, Len(rp.extracted)) ELSE 0)

\* select_best_orange, lines 67-69: the two totals
orange_totals(ro, rp) ==
    orange_scores(ro, rp,
        IF Len(ro.full_text) > 0 THEN find_total_in_text(ro.full_text) ELSE None,
        IF Len(rp.full_text) > 0 THEN find_total_in_text(rp.full_text) ELSE None)

\* select_best_orange after preprocess_image returned: the dict it returns
select_best_orange(o, p) == orange_totals(OcrOrEmpty(o), OcrOrEmpty(p))

\* select_best, lines 34-47: the choice and the dict returned
best_choose(ro, rp, total_o, total_p, score_o, score_p) ==
    IF score_p > score_o + CONF_MARGIN_ocr * Scale
    THEN [chosen |-> "processed", avg_conf |-> rp.avg_conf,
          total |-> total_p, lines |-> rp.extracted]
    ELSE [chosen |-> "original", avg_conf |-> ro.avg_conf,
          total |-> total_o, lines |-> ro.extracted]

\* select_best, lines 31-32: the two scores
best_scores(ro, rp, total_o, total_p) ==
    best_choose(ro, rp, total_o, total_p,
        score_result_ocr(ro.avg_conf, total_o, Len(ro.extracted)),
        score_result_ocr(rp.avg_conf, total_p, Len(rp.extracted)))

\* select_best, lines 28-29: the two totals
best_totals(ro, rp) ==
    best_scores(ro, rp, find_total_in_text(ro.full_text), find_total_in_text(rp.full_text))

\* select_best when both run_ocr_on_image calls return: the dict it returns
select_best(o, p) == best_totals(run_ocr_on_image(o.page), run_ocr_on_image(p.page))

InitArbiter ==
    /\ ocr_o \in EngineOutcomes
    /\ ocr_p \in EngineOutcomes
    /\ decision = NoDecision
    /\ arb_fn = "none"
    /\ arb_exc = "none"
    /\ arb_pc = "call"
    /\ FindTotalIdle
    /\ NormalizerIdle
    /\ StructurerIdle
    /\ BatchIdle

\* one call of select_best_orange: preprocess_image is outside any try and
\* may raise; the two OCR calls are inside one each
SelectBestOrange ==
    /\ arb_pc = "call"
    /\ arb_fn' = "select_best_orange"
    /\ \E preprocess_raises \in BOOLEAN :
         IF preprocess_raises
         THEN /\ arb_pc' = "raised"
              /\ arb_exc' = "preprocess_image"
              /\ decision' = NoDecision
         ELSE /\ arb_pc' = "returned"
              /\ arb_exc' = "none"
              /\ decision' = select_best_orange(ocr_o, ocr_p)
    /\ UNCHANGED <<ocr_o, ocr_p>>
    /\ UNCHANGED <<FindTotalVars, NormalizerVars, StructurerVars, BatchVars>>

\* one call of select_best: neither OCR call is inside a try
SelectBest ==
    /\ arb_pc = "call"
    /\ arb_fn' = "select_best"
    /\ IF ocr_o.raises \/ ocr_p.raises
       THEN /\ arb_pc' = "raised"
            /\ arb_exc' = "run_ocr_on_image"
            /\ decision' = NoDecision
       ELSE /\ arb_pc' = "returned"
            /\ arb_exc' = "none"
            /\ decision' = select_best(ocr_o, ocr_p)
    /\ UNCHANGED <<ocr_o, ocr_p>>
    /\ UNCHANGED <<FindTotalVars, NormalizerVars, StructurerVars, BatchVars>>

NextArbiter == SelectBestOrange \/ SelectBest

SpecArbiter == InitArbiter /\ [][NextArbiter]_vars

(***************************************************************************)
(* Properties of the arbitration                                           *)
(***************************************************************************)
\* the recognition result of each variant: the empty one for a failed call
ResultOriginal == IF ocr_o.raises THEN EmptyOcr ELSE run_ocr_on_image(ocr_o.page)
ResultEnhanced == IF ocr_p.raises THEN EmptyOcr ELSE run_ocr_on_image(ocr_p.page)

\* avg_confidence + (0.05 if a total is found in the full text) +
\* min(line_count / 100, 0.05), in units of 1/(1000 * Scale)
SpecScore(r) ==
    r.avg_conf
    + (IF find_total_in_text(r.full_text) # None THEN 50 * Scale ELSE 0)
    + (IF 10 * Len(r.extracted) <= 50 THEN 10 * Len(r.extracted) * Scale ELSE 50 * Scale)

EnhancedChosen == decision.chosen \in {"preprocessed", "processed"}

\* C1: select_best_orange and select_best choose the enhanced variant iff
\* score_enhanced > score_original + 0.02 and the enhanced result has at
\* least one line, and the original in every other case.
C1_SelectionRule ==
    arb_pc = "returned" =>
        /\ decision.chosen \in {"original", "preprocessed", "processed"}
        /\ EnhancedChosen <=>
              (/\ SpecScore(ResultEnhanced) > SpecScore(ResultOriginal) + 20 * Scale
               /\ Len(ResultEnhanced.extracted) > 0)

\* C1 witness: select_best_orange chooses the enhanced variant.
C1_Witness ==
    /\ arb_pc = "returned"
    /\ arb_fn = "select_best_orange"
    /\ Len(ResultOriginal.extracted) > 0
    /\ decision.chosen = "preprocessed"

\* C1: select_best chooses the enhanced variant.
C1_WitnessSelectBest ==
    /\ arb_pc = "returned"
    /\ arb_fn = "select_best"
    /\ Len(ResultOriginal.extracted) > 0
    /\ decision.chosen = "processed"

\* C1: an advantage of exactly 0.02 leaves the original chosen.
C1_WitnessAtMargin ==
    /\ arb_pc = "returned"
    /\ Len(ResultEnhanced.extracted) > 0
    /\ SpecScore(ResultEnhanced) = SpecScore(ResultOriginal) + 20 * Scale
    /\ decision.chosen = "original"

\* C1: select_best with an enhanced result of zero lines chooses the original.
C1_WitnessNoLines ==
    /\ arb_pc = "returned"
    /\ arb_fn = "select_best"
    /\ Len(ResultEnhanced.extracted) = 0
    /\ Len(ResultOriginal.extracted) = 0
    /\ decision.chosen = "original"

\* C2: the score select_best_orange gives each candidate is avg_confidence +
\* (0.05 if find_total detects a total in its full text) + min(line_count /
\* 100, 0.05), 0 for a candidate without lines; so the score never decreases
\* when the confidence grows with the total flag and the line count fixed.
C2_ScoreFormula ==
    (arb_pc = "returned" /\ arb_fn = "select_best_orange") =>
        /\ decision.scores.original = SpecScore(ResultOriginal)
        /\ decision.scores.preprocessed = SpecScore(ResultEnhanced)
        /\ Len(ResultOriginal.extracted) = 0 => decision.scores.original = 0
        /\ Len(ResultEnhanced.extracted) = 0 => decision.scores.preprocessed = 0
        /\ \A tot \in {None, decision.total} :
              \A n \in {Len(ResultOriginal.extracted), Len(ResultEnhanced.extracted)} :
                 score_result(Min(ResultOriginal.avg_conf, ResultEnhanced.avg_conf), tot, n)
                    <= score_result(IF ResultOriginal.avg_conf <= ResultEnhanced.avg_conf
                                    THEN ResultEnhanced.avg_conf
                                    ELSE ResultOriginal.avg_conf, tot, n)

\* C2 witness: a candidate with more than five lines and a detected total
\* (the line bonus is capped) beside a candidate without lines.
C2_Witness ==
    /\ arb_pc = "returned"
    /\ arb_fn = "select_best_orange"
    /\ Len(ResultOriginal.extracted) > 5
    /\ decision.total # None
    /\ decision.scores.original = ResultOriginal.avg_conf + 100 * Scale
    /\ Len(ResultEnhanced.extracted) = 0
    /\ ~ocr_p.raises
    /\ decision.scores.preprocessed = 0

\* C3 as stated: an exception of the OCR engine call on either variant never
\* leaves the arbiter; a Decision is returned, and it chooses the original
\* when only the enhanced call failed.
C3_OcrErrorContained ==
    (/\ arb_pc \in {"returned", "raised"}
     /\ ocr_o.raises \/ ocr_p.raises
     /\ arb_exc # "preprocess_image")
        => /\ arb_pc = "returned"
           /\ arb_exc = "none"
           /\ (ocr_p.raises /\ ~ocr_o.raises) => decision.chosen = "original"

\* C3 restricted to select_best_orange, whose OCR calls are inside a try.
C3_OrangeContained ==
    (/\ arb_pc \in {"returned", "raised"}
     /\ arb_fn = "select_best_orange"
     /\ ocr_o.raises \/ ocr_p.raises
     /\ arb_exc # "preprocess_image")
        => /\ arb_pc = "returned"
           /\ arb_exc = "none"
           /\ ocr_p.raises => (decision.chosen = "original"
                               /\ decision.scores.preprocessed = 0)
           /\ ocr_o.raises => decision.scores.original = 0

\* C3: with only the original call failing, select_best_orange can still
\* choose the surviving enhanced variant.
C3_WitnessSurvivor ==
    /\ arb_pc = "returned"
    /\ ocr_o.raises
    /\ ~ocr_p.raises
    /\ decision.chosen = "preprocessed"

\* float(s) succeeds and is not negative, for a string of digits and dots
ParsesNonNegative(s) ==
    /\ \A i \in 1..Len(s) : s[i] \in Digits \cup {"."}
    /\ \E i \in 1..Len(s) : s[i] \in Digits
    /\ DotCount(s) <= 1

\* C8 as stated: the total of every Decision is None or a string that
\* parses as a non-negative float.
C8_TotalParses ==
    arb_pc = "returned" =>
        (decision.total = None \/ ParsesNonNegative(decision.total))

\* C8: Decisions whose total does parse are produced too.
C8_WitnessParses ==
    /\ arb_pc = "returned"
    /\ decision.total # None
    /\ ParsesNonNegative(decision.total)

(***************************************************************************)
(* Normalisation.  A float is held as its repr, the character sequence     *)
(* str() gives it (positional notation: the magnitudes met here are zero   *)
(* or within [10^-4, 10^16)), so that two floats are equal iff their       *)
(* sequences are.  An exception that leaves a function is the one-element  *)
(* sequence of its name.                                                   *)
(***************************************************************************)
ValueError == <<"ValueError">>
TypeError == <<"TypeError">>
Exceptions == {ValueError, TypeError}

\* "not value" for a str or None
Falsy(v) == v = None \/ Len(v) = 0

\* the digits of ds without leading zeros
RECURSIVE StripLeadingZeros(_)
StripLeadingZeros(ds) ==
    IF Len(ds) > 0 /\ Head(ds) = "0" THEN StripLeadingZeros(Tail(ds)) ELSE ds

\* the digits of ds without trailing zeros
RECURSIVE StripTrailingZeros(_)
StripTrailingZeros(ds) ==
    IF Len(ds) > 0 /\ ds[Len(ds)] = "0"
    THEN StripTrailingZeros(SubSeq(ds, 1, Len(ds) - 1))
    ELSE ds

\* the position of the first c in s, 0 when there is none (s.find(c) + 1)
RECURSIVE FindChar(_, _, _)
FindChar(s, c, i) ==
    IF i > Len(s) THEN 0 ELSE IF s[i] = c THEN i ELSE FindChar(s, c, i + 1)

\* the position of the last c in s, 0 when there is none (s.rfind(c) + 1)
RECURSIVE RFindChar(_, _, _)
RFindChar(s, c, i) ==
    IF i = 0 THEN 0 ELSE IF s[i] = c THEN i ELSE RFindChar(s, c, i - 1)

\* s after an optional sign
Unsigned(s) == IF Len(s) > 0 /\ s[1] \in {"+", "-"} THEN Tail(s) ELSE s

\* float(s) accepts s: a sign, then digits with at most one dot among them
IsFloatLiteral(s) ==
    /\ \A i \in 1..Len(Unsigned(s)) : Unsigned(s)[i] \in Digits \cup {"."}
    /\ \E i \in 1..Len(Unsigned(s)) : Unsigned(s)[i] \in Digits
    /\ DotCount(s) <= 1

\* the repr of the float with the integer digits ip and the fraction digits fp
FloatRepr(neg, ip, fp) ==
    (IF neg THEN <<"-">> ELSE <<>>)
    \o (IF Len(StripLeadingZeros(ip)) = 0 THEN <<"0">> ELSE StripLeadingZeros(ip))
    \o <<".">>
    \o (IF Len(StripTrailingZeros(fp)) = 0 THEN <<"0">> ELSE StripTrailingZeros(fp))

\* the digits of u before and after its dot
IntDigits(u) ==
    IF FindChar(u, ".", 1) = 0 THEN u ELSE SubSeq(u, 1, FindChar(u, ".", 1) - 1)
FracDigits(u) ==
    IF FindChar(u, ".", 1) = 0 THEN <<>> ELSE SubSeq(u, FindChar(u, ".", 1) + 1, Len(u))

\* float(s): the float, or ValueError
PyFloat(s) ==
    IF IsFloatLiteral(s)
    THEN FloatRepr(Len(s) > 0 /\ s[1] = "-", IntDigits(Unsigned(s)), FracDigits(Unsigned(s)))
    ELSE ValueError

\* try: return float(v) / except ValueError: return None
FloatOrNone(v) == IF PyFloat(v) = ValueError THEN None ELSE PyFloat(v)

\* str.strip()
RECURSIVE LStrip(_)
LStrip(s) == IF Len(s) > 0 /\ Head(s) \in Whitespace THEN LStrip(Tail(s)) ELSE s
RECURSIVE RStrip(_)
RStrip(s) ==
    IF Len(s) > 0 /\ s[Len(s)] \in Whitespace THEN RStrip(SubSeq(s, 1, Len(s) - 1)) ELSE s
Strip(s) == RStrip(LStrip(s))

\* re.sub(pattern, '', s) for a pattern that is one character class; the
\* argument must be a str
ReSubClass(cs, s) == IF s = None THEN TypeError ELSE RemoveChars(s, cs)

\* [EURO $ POUND YEN \s A-Z]
AmountJunk == {EURO, "$", POUND, YEN} \cup Whitespace \cup UpperSet

\* [%\s]
PercentJunk == {"%"} \cup Whitespace

\* s.replace(a, "")
RemoveChar(s, a) == RemoveChars(s, {a})

\* len(v.split(',')[-1])
LastPartLen(v) == Len(v) - RFindChar(v, ",", Len(v))

\* normalize_amount, lines 84-101, with the comma alone always a decimal comma
resolve_separators_decimal_only(v) ==
    IF FindChar(v, ",", 1) > 0 /\ FindChar(v, ".", 1) > 0
    THEN IF RFindChar(v, ",", Len(v)) > RFindChar(v, ".", Len(v))
         THEN ReplaceChar(RemoveChar(v, "."), ",", ".")
         ELSE RemoveChar(v, ",")
    ELSE IF FindChar(v, ",", 1) > 0
         THEN ReplaceChar(v, ",", ".")
         ELSE v

\* normalize_amount, lines 84-101: which separator is the decimal one
resolve_separators(v) ==
    IF FindChar(v, ",", 1) > 0 /\ FindChar(v, ".", 1) > 0
    THEN IF RFindChar(v, ",", Len(v)) > RFindChar(v, ".", Len(v))
         THEN ReplaceChar(RemoveChar(v, "."), ",", ".")
         ELSE RemoveChar(v, ",")
    ELSE IF FindChar(v, ",", 1) > 0
         THEN IF LastPartLen(v) <= 2
              THEN ReplaceChar(v, ",", ".")
              ELSE RemoveChar(v, ",")
         ELSE v

\* normalize_amount from line 78 on, v the value without its junk
amount_of_stripped(v) ==
    IF Len(v) = 0 THEN None ELSE FloatOrNone(resolve_separators(v))

normalize_amount(val) ==
    IF Falsy(val) THEN None
    ELSE amount_of_stripped(ReSubClass(AmountJunk, Strip(val)))

\* normalize_percentage from line 123 on, v the result of re.sub
percentage_of_stripped(v) ==
    IF v \in Exceptions THEN v ELSE FloatOrNone(ReplaceChar(v, ",", "."))

\* normalize_percentage without "if not value: return None"
normalize_percentage_unguarded(val) ==
    percentage_of_stripped(ReSubClass(PercentJunk, val))

normalize_percentage(val) ==
    IF Falsy(val) THEN None
    ELSE percentage_of_stripped(ReSubClass(PercentJunk, val))

\* the number of digits, at most n, from position i on
RECURSIVE DigitsFrom(_, _, _)
DigitsFrom(s, i, n) ==
    IF n > 0 /\ IsDigitAt(s, i) THEN 1 + DigitsFrom(s, i + 1, n - 1) ELSE 0

DateSep == {"/", "-"}

\* \d{1,2}[/-] at position i: the number of digits it takes, 0 for no match
DayLikeAt(s, i) ==
    IF DigitsFrom(s, i, 2) >= 1
       /\ i + DigitsFrom(s, i, 2) <= Len(s)
       /\ s[i + DigitsFrom(s, i, 2)] \in DateSep
    THEN DigitsFrom(s, i, 2)
    ELSE 0

\* str.zfill(2)
ZFill2(ds) == IF Len(ds) < 2 THEN <<"0">> \o ds ELSE ds

\* lines 148-151 for a match with d day digits, m month digits, y year digits
date_format(s, d, m, y) ==
    (IF y = 2 THEN <<"2", "0">> ELSE <<>>) \o SubSeq(s, d + m + 3, d + m + 2 + y)
    \o <<"-">> \o ZFill2(SubSeq(s, d + 2, d + 1 + m))
    \o <<"-">> \o ZFill2(SubSeq(s, 1, d))

\* a variant of date_of_match that gives None for a value without a date
date_of_match_or_none(s, d, m) ==
    IF d > 0 /\ m > 0 /\ DigitsFrom(s, d + m + 3, 4) >= 2
    THEN date_format(s, d, m, DigitsFrom(s, d + m + 3, 4))
    ELSE None

\* re.match(r'(\d{1,2})[\/\-](\d{1,2})[\/\-](\d{2,4})', s) and its use
date_of_match(s, d, m) ==
    IF d > 0 /\ m > 0 /\ DigitsFrom(s, d + m + 3, 4) >= 2
    THEN date_format(s, d, m, DigitsFrom(s, d + m + 3, 4))
    ELSE s

date_of_day(s, d) == date_of_match(s, d, IF d > 0 THEN DayLikeAt(s, d + 2) ELSE 0)

normalize_date(val) ==
    IF Falsy(val) THEN None ELSE date_of_day(val, DayLikeAt(val, 1))

CUR_EUR == <<"E", "U", "R">>
CUR_USD == <<"U", "S", "D">>
CUR_GBP == <<"G", "B", "P">>
CUR_CHF == <<"C", "H", "F">>
CUR_UNKNOWN == <<"U", "N", "K", "N", "O", "W", "N">>

\* detect_currency from line 171 on, v == value.upper()
currency_of_upper(val, v) ==
    IF Contains(val, <<EURO>>) \/ Contains(v, CUR_EUR) THEN CUR_EUR
    ELSE IF Contains(val, <<"$">>) \/ Contains(v, CUR_USD) THEN CUR_USD
    ELSE IF Contains(val, <<POUND>>) \/ Contains(v, CUR_GBP) THEN CUR_GBP
    ELSE IF Contains(v, CUR_CHF) THEN CUR_CHF
    ELSE CUR_UNKNOWN

detect_currency(val) ==
    IF Falsy(val) THEN CUR_UNKNOWN ELSE currency_of_upper(val, Upper(val))

(***************************************************************************)
(* Values handed to the normalizers: None, the empty string, amounts made  *)
(* of up to MaxParts pieces, the str() of amounts of at most two decimals, *)
(* percentages, dates and currency strings.                                *)
(***************************************************************************)
RECURSIVE Concat(_)
Concat(parts) == IF Len(parts) = 0 THEN <<>> ELSE Head(parts) \o Concat(Tail(parts))

AmountPieces ==
    { <<"1">>, <<"1", "0", "0">>, <<",", "2", "0", "0">>, <<".", "2", "0", "0">>,
      <<",", "5", "0">>, <<".", "5", "0">>, <<",">>, <<".">>, <<"x">>, <<" ", EURO>> }

AmountValues == {Concat(ps) : ps \in SeqsUpTo(AmountPieces, MaxParts)}

CanonicalValues ==
    {StrFloat(c) : c \in 0..MaxRoundTripCents} \cup {StrFloat(120050), StrFloat(182917)}

PercentValues ==
    { <<"2", "0", ",", "0", "0", "%">>, <<"5", ".", "5", "%">>, <<"1", "9", " ", "%">>,
      <<"%">>, <<"x", "%">>, <<"1", ",", "2", "0", "0", ".", "5", "0", "%">>,
      <<"-", "5", "%">> }

DateDays == { <<"5">>, <<"1", "5">>, <<"1", "5", "0">>, <<>> }
DateMonths == { <<"3">>, <<"0", "1">> }
DateYears == { <<"9", "9">>, <<"2", "0", "2", "4">>, <<"2", "0", "2">>, <<"7">>,
               <<"2", "0", "2", "4", "5">> }

DateValues ==
    {d \o <<s[1]>> \o m \o <<s[2]>> \o y :
        d \in DateDays, m \in DateMonths, y \in DateYears,
        s \in {<<"/", "/">>, <<"-", "-">>, <<"/", "-">>, <<"/", ".">>}}
    \cup { <<" ", "1", "5", "/", "0", "1", "/", "2", "0", "2", "4">>,
           <<"1", "5", "/", "0", "1", "/", "2", "0", "2", "4", " ", "x">> }

CurrencyValues ==
    { <<"1", "2", ",", "5", "0", " ", EURO>>, <<"1", "2", " ", "e", "u", "r">>,
      <<"1", " ", "8", "2", "9", ",", "1", "7", " ", "E", "U", "R">>,
      <<"$", "5">>, <<"u", "s", "d", " ", "3">>, <<POUND>>, <<"G", "b", "p">>,
      <<"c", "h", "f", " ", "1", "0", "0">>, <<"1", "0", " ", "C", "H", "F">>,
      <<EURO, "$">>, <<"$", POUND>>, <<"G", "B", "P", " ", "C", "H", "F">>,
      <<"D", "T">>, <<"5", " ", YEN>>, <<" ", NBSP, " ">> }

Values ==
    {None, <<>>} \cup AmountValues \cup CanonicalValues \cup PercentValues
        \cup DateValues \cup CurrencyValues

InitNormalizer ==
    /\ value \in Values
    /\ n_fn = "none"
    /\ n_out = None
    /\ n_pc = "call"
    /\ FindTotalIdle
    /\ ArbiterIdle
    /\ StructurerIdle
    /\ BatchIdle

\* the call fn(value) ends with r: a return value or an exception
NormalizerCall(fn, r) ==
    /\ n_pc = "call"
    /\ n_fn' = fn
    /\ n_out' = r
    /\ n_pc' = IF r \in Exceptions THEN "raised" ELSE "returned"
    /\ UNCHANGED value
    /\ UNCHANGED <<FindTotalVars, ArbiterVars, StructurerVars, BatchVars>>

NormalizeAmount == NormalizerCall("normalize_amount", normalize_amount(value))
NormalizePercentage == NormalizerCall("normalize_percentage", normalize_percentage(value))
NormalizeDate == NormalizerCall("normalize_date", normalize_date(value))
DetectCurrency == NormalizerCall("detect_currency", detect_currency(value))

NextNormalizer ==
    NormalizeAmount \/ NormalizePercentage \/ NormalizeDate \/ DetectCurrency

SpecNormalizer == InitNormalizer /\ [][NextNormalizer]_vars

(***************************************************************************)
(* Structuring: src/structurer/ocr_to_structured_json.py.  A line is a     *)
(* dict with "text", "conf" and "box"; a box is the quadrilateral of the   *)
(* OCR engine, four points <<x, y>>.                                       *)
(***************************************************************************)
SetMin(S) == CHOOSE x \in S : \A y \in S : x <= y
SetMax(S) == CHOOSE x \in S : \A y \in S : x >= y

bbox_left(b) == SetMin({b[i][1] : i \in 1..Len(b)})
bbox_right(b) == SetMax({b[i][1] : i \in 1..Len(b)})
bbox_top(b) == SetMin({b[i][2] : i \in 1..Len(b)})
bbox_bottom(b) == SetMax({b[i][2] : i \in 1..Len(b)})

\* a variant of bbox_union that looks at the first and the last box only
bbox_union_ends(boxes) ==
    << SetMin({bbox_left(boxes[i]) : i \in {1, Len(boxes)}}),
       SetMin({bbox_top(boxes[i]) : i \in {1, Len(boxes)}}),
       SetMax({bbox_right(boxes[i]) : i \in {1, Len(boxes)}}),
       SetMax({bbox_bottom(boxes[i]) : i \in {1, Len(boxes)}}) >>

bbox_union(boxes) ==
    << SetMin({bbox_left(boxes[i]) : i \in 1..Len(boxes)}),
       SetMin({bbox_top(boxes[i]) : i \in 1..Len(boxes)}),
       SetMax({bbox_right(boxes[i]) : i \in 1..Len(boxes)}),
       SetMax({bbox_bottom(boxes[i]) : i \in 1..Len(boxes)}) >>

\* the default of the parameter y_gap
y_gap_default == 40

Front(q) == SubSeq(q, 1, Len(q) - 1)

\* sorted(lines, key=top) is stable: a line goes behind every line placed
\* before it whose top is not greater
RECURSIVE InsertByTop(_, _)
InsertByTop(ln, srt) ==
    IF Len(srt) = 0 THEN <<ln>>
    ELSE IF bbox_top(srt[Len(srt)].box) <= bbox_top(ln.box) THEN Append(srt, ln)
    ELSE Append(InsertByTop(ln, Front(srt)), srt[Len(srt)])

\* a variant of sorted_by_top that keeps the input order
input_order(lines) == lines

RECURSIVE sorted_by_top(_)
sorted_by_top(lines) ==
    IF Len(lines) = 0 THEN <<>>
    ELSE InsertByTop(lines[Len(lines)], sorted_by_top(Front(lines)))

\* a variant of joins_block that also joins at a gap equal to the threshold
joins_block_inclusive(ln, prev, y_gap) ==
    bbox_top(ln.box) - bbox_bottom(prev.box) <= y_gap

\* lines 35-38: the gap to the last line of the open block is below y_gap
joins_block(ln, prev, y_gap) ==
    bbox_top(ln.box) - bbox_bottom(prev.box) < y_gap

\* a variant of close_last that forgets the open block
close_last_dropped(blocks, current) == blocks

\* lines 44-45
close_last(blocks, current) ==
    IF Len(current) > 0 THEN Append(blocks, current) ELSE blocks

\* the loop of lines 30-42 from the i-th sorted line on
RECURSIVE GroupLoop(_, _, _, _, _)
GroupLoop(lines, i, blocks, current, y_gap) ==
    IF i > Len(lines) THEN close_last(blocks, current)
    ELSE IF Len(current) = 0
         THEN GroupLoop(lines, i + 1, blocks, <<lines[i]>>, y_gap)
    ELSE IF joins_block(lines[i], current[Len(current)], y_gap)
         THEN GroupLoop(lines, i + 1, blocks, Append(current, lines[i]), y_gap)
    ELSE GroupLoop(lines, i + 1, Append(blocks, current), <<lines[i]>>, y_gap)

group_lines_into_blocks(lines, y_gap) ==
    GroupLoop(sorted_by_top(lines), 1, <<>>, <<>>, y_gap)

\* lines 63-74: the lines of one block, numbered from 1
block_lines(block) ==
    [j \in 1..Len(block) |->
        [line_id |-> j,
         text |-> block[j].text,
         bbox |-> << bbox_left(block[j].box), bbox_top(block[j].box),
                     bbox_right(block[j].box), bbox_bottom(block[j].box) >>,
         confidence |-> block[j].conf]]

\* lines 58-80: the blocks, numbered from 1
structure_blocks(blocks_raw) ==
    [i \in 1..Len(blocks_raw) |->
        [block_id |-> i,
         bbox |-> bbox_union([k \in 1..Len(blocks_raw[i]) |-> blocks_raw[i][k].box]),
         lines |-> block_lines(blocks_raw[i])]]

\* lines 82-90
structured_of(d, blocks) ==
    [blocks |-> blocks,
     meta |-> [avg_conf |-> d.avg_conf,
               lines_count |-> Len(d.lines),
               blocks_count |-> Len(blocks),
               chosen_source |-> d.chosen]]

structure_ocr(d) ==
    structured_of(d, structure_blocks(group_lines_into_blocks(d.lines, y_gap_default)))

\* the lines the engine recognised: boxes with tops 10 and 20, a gap of
\* exactly 40 (bottom 30, top 70), a skewed box, a tall box sharing its top
\* with another line, and two overlapping squares
Quad(l, t, r, b) == << <<l, t>>, <<r, t>>, <<r, b>>, <<l, b>> >>

RecognizedLines ==
    { [text |-> "Facture", conf |-> 990, box |-> Quad(0, 10, 10, 30)],
      [text |-> "Orange", conf |-> 950, box |-> Quad(5, 20, 20, 40)],
      [text |-> "Total", conf |-> 900, box |-> Quad(0, 100, 12, 110)],
      [text |-> "TVA", conf |-> 870, box |-> Quad(0, 70, 30, 80)],
      [text |-> "Date", conf |-> 800, box |-> << <<0, 12>>, <<10, 8>>, <<12, 28>>, <<2, 32>> >>],
      [text |-> "|", conf |-> 500, box |-> Quad(40, 10, 50, 200)],
      [text |-> "N", conf |-> 910, box |-> Quad(0, 0, 10, 10)],
      [text |-> "12.50", conf |-> 920, box |-> Quad(5, 5, 20, 20)] }

LineLists == UNION {[1..n -> RecognizedLines] : n \in 0..MaxStructLines}

InitStructurer ==
    /\ \E ls \in LineLists, ch \in {"original", "preprocessed"} :
          data = [lines |-> ls, avg_conf |-> 900, chosen |-> ch]
    /\ structured = NoStructured
    /\ st_pc = "call"
    /\ FindTotalIdle
    /\ ArbiterIdle
    /\ NormalizerIdle
    /\ BatchIdle

StructureOcr ==
    /\ st_pc = "call"
    /\ structured' = structure_ocr(data)
    /\ st_pc' = "returned"
    /\ UNCHANGED data
    /\ UNCHANGED <<FindTotalVars, ArbiterVars, NormalizerVars, BatchVars>>

NextStructurer == StructureOcr

SpecStructurer == InitStructurer /\ [][NextStructurer]_vars

(***************************************************************************)
(* The batch loops: process_images and main of generic_pipeline.py, and    *)
(* the main block of scripts/process_orange_factures.py.  What a document  *)
(* does at each step (load, quality gate, OCR, write) is chosen when the   *)
(* step is taken.                                                          *)
(***************************************************************************)
ImageName(i) == <<"facture", i>>

\* a variant of quality_rejected that forgets the document
quality_rejected_dropped(res, name) == res

\* lines 76-83: the quality gate rejected the document
quality_rejected(res, name) ==
    [res EXCEPT !.failed = Append(@, [file |-> name, reason |-> "quality"])]

\* a variant of except_handler that does not record the document
except_handler_silent(res, name, e) == res

\* lines 125-130: except Exception as e
except_handler(res, name, e) ==
    [res EXCEPT !.failed = Append(@, [file |-> name, reason |-> e])]

\* lines 117-123
record_processed(res, name) ==
    [res EXCEPT !.processed = Append(@, [file |-> name])]

\* a variant of batch_success that reports success when a document succeeded
batch_success_any(res) == Len(res.processed) > 0

\* line 157
batch_success(res) == Len(res.failed) = 0

InitBatch ==
    /\ b_fn \in {"process_images", "process_orange_factures"}
    /\ b_exists \in BOOLEAN
    /\ \E n \in 0..MaxImages : all_images = [i \in 1..n |-> ImageName(i)]
    /\ ~b_exists => all_images = <<>>
    /\ idx = 0
    /\ b_step = "none"
    /\ results = NoResults
    /\ stats = NoStats
    /\ all_decisions = <<>>
    /\ b_pc = "start"
    /\ b_ret = "None"
    /\ exit_status = "none"
    /\ FindTotalIdle
    /\ ArbiterIdle
    /\ NormalizerIdle
    /\ StructurerIdle

BatchOthersUnchanged ==
    UNCHANGED <<FindTotalVars, ArbiterVars, NormalizerVars, StructurerVars>>

\* the for statement takes the next image, or ends
NextDocument ==
    /\ idx' = idx + 1
    /\ b_step' = IF idx < Len(all_images) THEN "quality" ELSE "none"
    /\ b_pc' = IF idx < Len(all_images) THEN "loop" ELSE "summary"

\* generic_pipeline.py lines 28-65
ProcessImagesStart ==
    /\ b_pc = "start" /\ b_fn = "process_images"
    /\ \E mkdir_raises \in BOOLEAN :
          IF ~b_exists
          THEN /\ b_ret' = "False" /\ b_pc' = "returned"
               /\ UNCHANGED <<idx, b_step, results>>
          ELSE IF mkdir_raises
          THEN /\ b_pc' = "raised"
               /\ UNCHANGED <<idx, b_step, results, b_ret>>
          ELSE IF Len(all_images) = 0
          THEN /\ b_ret' = "False" /\ b_pc' = "returned"
               /\ UNCHANGED <<idx, b_step, results>>
          ELSE /\ results' = [processed |-> <<>>, failed |-> <<>>,
                              total |-> Len(all_images)]
               /\ idx' = 1 /\ b_step' = "quality" /\ b_pc' = "loop"
               /\ UNCHANGED b_ret
    /\ UNCHANGED <<b_fn, b_exists, all_images, stats, all_decisions, exit_status>>
    /\ BatchOthersUnchanged

\* lines 71-85: smart_preprocess raises on a missing or unreadable image,
\* gives None for an image too dark or too bright, or the image
QualityCheck ==
    /\ b_pc = "loop" /\ b_fn = "process_images" /\ b_step = "quality"
    /\ \E outcome \in {"raises", "rejected", "ok"} :
          \/ /\ outcome = "raises"
             /\ results' = except_handler(results, all_images[idx], "load")
             /\ NextDocument
          \/ /\ outcome = "rejected"
             /\ results' = quality_rejected(results, all_images[idx])
             /\ NextDocument
          \/ /\ outcome = "ok"
             /\ b_step' = "ocr"
             /\ UNCHANGED <<results, idx, b_pc>>
    /\ UNCHANGED <<b_fn, b_exists, all_images, stats, all_decisions, b_ret, exit_status>>
    /\ BatchOthersUnchanged

\* lines 87-93: run_ocr_on_image may raise; find_total_in_text does not
RunOcr ==
    /\ b_pc = "loop" /\ b_fn = "process_images" /\ b_step = "ocr"
    /\ \E ocr_raises \in BOOLEAN :
          IF ocr_raises
          THEN /\ results' = except_handler(results, all_images[idx], "ocr")
               /\ NextDocument
          ELSE /\ b_step' = "write"
               /\ UNCHANGED <<results, idx, b_pc>>
    /\ UNCHANGED <<b_fn, b_exists, all_images, stats, all_decisions, b_ret, exit_status>>
    /\ BatchOthersUnchanged

\* lines 95-123: the result file is written, then the document is recorded
SaveResult ==
    /\ b_pc = "loop" /\ b_fn = "process_images" /\ b_step = "write"
    /\ \E write_raises \in BOOLEAN :
          results' = IF write_raises
                     THEN except_handler(results, all_images[idx], "write")
                     ELSE record_processed(results, all_images[idx])
    /\ NextDocument
    /\ UNCHANGED <<b_fn, b_exists, all_images, stats, all_decisions, b_ret, exit_status>>
    /\ BatchOthersUnchanged

\* lines 132-157: the summary file is written and the status returned
BatchSummary ==
    /\ b_pc = "summary" /\ b_fn = "process_images"
    /\ \E write_raises \in BOOLEAN :
          IF write_raises
          THEN b_pc' = "raised" /\ UNCHANGED b_ret
          ELSE /\ b_ret' = IF batch_success(results) THEN "True" ELSE "False"
               /\ b_pc' = "returned"
    /\ UNCHANGED <<b_fn, b_exists, all_images, idx, b_step, results, stats,
                   all_decisions, exit_status>>
    /\ BatchOthersUnchanged

\* lines 169-170: sys.exit(0 if success else 1); an exception that nothing
\* catches ends the process with status 1
MainExit ==
    /\ b_pc \in {"returned", "raised"}
    /\ exit_status' = IF b_pc = "returned" /\ b_ret = "True" THEN "0" ELSE "1"
    /\ b_pc' = "exited"
    /\ UNCHANGED <<b_fn, b_exists, all_images, idx, b_step, results, stats,
                   all_decisions, b_ret>>
    /\ BatchOthersUnchanged

\* process_orange_factures.py lines 114-123
OrangeStart ==
    /\ b_pc = "start" /\ b_fn = "process_orange_factures"
    /\ \E mkdir_raises \in BOOLEAN :
          IF mkdir_raises
          THEN b_pc' = "raised" /\ UNCHANGED <<idx, b_step>>
          ELSE /\ idx' = 1
               /\ b_step' = IF Len(all_images) > 0 THEN "select" ELSE "none"
               /\ b_pc' = IF Len(all_images) > 0 THEN "loop" ELSE "summary"
    /\ stats' = [total |-> 0, ok |-> 0, error |-> 0]
    /\ all_decisions' = <<>>
    /\ UNCHANGED <<b_fn, b_exists, all_images, results, b_ret, exit_status>>
    /\ BatchOthersUnchanged

\* lines 124-157: one image; select_best_orange or the write may raise
OrangeDocument ==
    /\ b_pc = "loop" /\ b_fn = "process_orange_factures"
    /\ \E outcome \in {"ok", "select_raises", "write_raises"} :
          IF outcome = "ok"
          THEN /\ all_decisions' = Append(all_decisions, [image |-> all_images[idx]])
               /\ stats' = [stats EXCEPT !.total = @ + 1, !.ok = @ + 1]
          ELSE /\ stats' = [stats EXCEPT !.total = @ + 1, !.error = @ + 1]
               /\ UNCHANGED all_decisions
    /\ idx' = idx + 1
    /\ b_step' = IF idx < Len(all_images) THEN "select" ELSE "none"
    /\ b_pc' = IF idx < Len(all_images) THEN "loop" ELSE "summary"
    /\ UNCHANGED <<b_fn, b_exists, all_images, results, b_ret, exit_status>>
    /\ BatchOthersUnchanged

\* lines 159-168: all_decisions.json is written and the script ends
OrangeFinish ==
    /\ b_pc = "summary" /\ b_fn = "process_orange_factures"
    /\ \E write_raises \in BOOLEAN :
          IF write_raises
          THEN b_pc' = "raised" /\ UNCHANGED exit_status
          ELSE b_pc' = "exited" /\ exit_status' = "0"
    /\ UNCHANGED <<b_fn, b_exists, all_images, idx, b_step, results, stats,
                   all_decisions, b_ret>>
    /\ BatchOthersUnchanged

NextBatch ==
    \/ ProcessImagesStart
    \/ QualityCheck
    \/ RunOcr
    \/ SaveResult
    \/ BatchSummary
    \/ MainExit
    \/ OrangeStart
    \/ OrangeDocument
    \/ OrangeFinish

SpecBatch == InitBatch /\ [][NextBatch]_vars

\* the loop is scheduled until it ends: the process is not stopped from
\* outside
SpecBatchFair == SpecBatch /\ WF_vars(NextBatch)

(***************************************************************************)
(* The whole pipeline                                                      *)
(***************************************************************************)
Init == InitFindTotal \/ InitArbiter \/ InitNormalizer \/ InitStructurer \/ InitBatch

Next == NextFindTotal \/ NextArbiter \/ NextNormalizer \/ NextStructurer \/ NextBatch

Spec == Init /\ [][Next]_vars

(***************************************************************************)
(* Properties of the normalizers                                           *)
(***************************************************************************)
AmountReturned == n_pc = "returned" /\ n_fn = "normalize_amount"

\* the value without currency symbols, capital letters and whitespace
Residue == SelectSeq(value, LAMBDA c : c \notin {EURO, "$", POUND, YEN, " ", NBSP, LF}
                                          /\ c \notin UpperSet)

LastOf(v, c) == IF \E i \in 1..Len(v) : v[i] = c
                THEN CHOOSE i \in 1..Len(v) : v[i] = c /\ \A j \in (i + 1)..Len(v) : v[j] # c
                ELSE 0

\* v with a dot for each character d
DotFor(v, d) == [i \in 1..Len(v) |-> IF v[i] = d THEN "." ELSE v[i]]

\* v with the characters c dropped and a dot for each character d
DropAndDot(v, c, d) == DotFor(SelectSeq(v, LAMBDA x : x # c), d)

\* the reading of the separators the claim gives
SeparatorsResolved(v) ==
    IF LastOf(v, ",") > 0 /\ LastOf(v, ".") > 0
    THEN (IF LastOf(v, ",") > LastOf(v, ".")
          THEN DropAndDot(v, ".", ",")
          ELSE DropAndDot(v, ",", "."))
    ELSE IF LastOf(v, ",") > 0
         THEN (IF Len(v) - LastOf(v, ",") <= 2
               THEN DotFor(v, ",")
               ELSE DropAndDot(v, ",", "."))
         ELSE v

V_1_200_50_fr == <<"1", ".", "2", "0", "0", ",", "5", "0">>
V_1_200_50_en == <<"1", ",", "2", "0", "0", ".", "5", "0">>
V_100_50 == <<"1", "0", "0", ",", "5", "0">>
V_1_200 == <<"1", ",", "2", "0", "0">>
F_1200_5 == <<"1", "2", "0", "0", ".", "5">>
F_100_5 == <<"1", "0", "0", ".", "5">>
F_1200_0 == <<"1", "2", "0", "0", ".", "0">>

\* C9: on what is left of the value after the stripping, (a) with both a
\* comma and a dot the rightmost of the two is the decimal separator and the
\* other is dropped, (b) commas alone are decimal when at most 2 characters
\* follow the last one and thousands separators otherwise, (c) without a
\* comma the string is parsed as it is, so that the str() of an amount of at
\* most two decimals gives that amount back.
C9_SeparatorResolution ==
    (AmountReturned /\ value # None /\ Len(Residue) > 0) =>
        /\ n_out = (IF IsFloatLiteral(SeparatorsResolved(Residue))
                    THEN PyFloat(SeparatorsResolved(Residue))
                    ELSE None)
        /\ value = V_1_200_50_fr => n_out = F_1200_5
        /\ value = V_1_200_50_en => n_out = F_1200_5
        /\ value = V_100_50 => n_out = F_100_5
        /\ value = V_1_200 => n_out = F_1200_0
        /\ value \in CanonicalValues => n_out = value

\* C9 witness: '1.200,50' has given 1200.5.
C9_Witness == AmountReturned /\ value = V_1_200_50_fr /\ n_out = F_1200_5

\* C9: the other reference cases and a canonical value are reached.
C9_WitnessEn == AmountReturned /\ value = V_1_200_50_en /\ n_out = F_1200_5
C9_WitnessDecimalComma == AmountReturned /\ value = V_100_50 /\ n_out = F_100_5
C9_WitnessThousands == AmountReturned /\ value = V_1_200 /\ n_out = F_1200_0
C9_WitnessRoundTrip ==
    AmountReturned /\ value = StrFloat(MaxRoundTripCents - 5) /\ n_out = value

\* the value names a currency: a symbol, or a code in any case
NamesCurrency ==
    \/ \E c \in {EURO, "$", POUND} : Contains(value, <<c>>)
    \/ \E code \in {CUR_EUR, CUR_USD, CUR_GBP, CUR_CHF} :
          \E i \in 1..Len(value) :
             /\ i + 2 <= Len(value)
             /\ \A k \in 1..3 : value[i + k - 1] \in {code[k], LowerChar(code[k])}

\* the percentage, without '%' and whitespace and with dots for commas, is
\* a number
PercentParses ==
    IsFloatLiteral(DotFor(SelectSeq(value, LAMBDA c : c \notin {"%", " ", NBSP, LF}), ","))

\* C10: normalize_amount, normalize_percentage, normalize_date and
\* detect_currency return for every string, the empty string and None, and
\* never raise; an amount or percentage that does not parse gives None and
\* a value that names no currency gives 'UNKNOWN'.
C10_Total ==
    n_pc \in {"returned", "raised"} =>
        /\ n_pc = "returned"
        /\ n_out \notin Exceptions
        /\ n_fn = "normalize_amount" =>
              /\ n_out = None \/ IsFloatLiteral(n_out)
              /\ (value \in {None, <<>>} \/ ~IsFloatLiteral(SeparatorsResolved(Residue)))
                    => n_out = None
        /\ n_fn = "normalize_percentage" =>
              /\ n_out = None \/ IsFloatLiteral(n_out)
              /\ (value \in {None, <<>>} \/ ~PercentParses) => n_out = None
        /\ n_fn = "normalize_date" =>
              (value \in {None, <<>>} => n_out = None)
        /\ n_fn = "detect_currency" =>
              /\ n_out \in {CUR_EUR, CUR_USD, CUR_GBP, CUR_CHF, CUR_UNKNOWN}
              /\ (value \in {None, <<>>} \/ ~NamesCurrency) => n_out = CUR_UNKNOWN

\* C10 witness: normalize_percentage(None) has returned None.
C10_Witness ==
    /\ n_pc = "returned"
    /\ n_fn = "normalize_percentage"
    /\ value = None
    /\ n_out = None

\* C10: an amount that does not parse, a percentage that does not parse and
\* a value without currency are reached.
C10_WitnessAmount ==
    /\ n_pc = "returned" /\ n_fn = "normalize_amount"
    /\ value # None /\ Len(Residue) > 0 /\ n_out = None
C10_WitnessPercentage ==
    /\ n_pc = "returned" /\ n_fn = "normalize_percentage"
    /\ value # None /\ Len(value) > 0 /\ n_out = None
C10_WitnessCurrency ==
    /\ n_pc = "returned" /\ n_fn = "detect_currency"
    /\ value # None /\ Len(value) > 0 /\ n_out = CUR_UNKNOWN

(***************************************************************************)
(* Properties of normalize_date                                            *)
(***************************************************************************)
DateReturned == n_pc = "returned" /\ n_fn = "normalize_date"

AllDigits(v) == \A i \in 1..Len(v) : v[i] \in Digits

\* v starts with D{1,2}[/-]M{1,2}[/-]Y{2,4}: day of d digits, month of m
DateShape(v, d, m) ==
    /\ Len(v) >= d + m + 4
    /\ AllDigits(SubSeq(v, 1, d))
    /\ v[d + 1] \in {"/", "-"}
    /\ AllDigits(SubSeq(v, d + 2, d + 1 + m))
    /\ v[d + m + 2] \in {"/", "-"}
    /\ AllDigits(SubSeq(v, d + m + 3, d + m + 4))

MatchesDatePattern(v) ==
    /\ v # None
    /\ \E d \in 1..2, m \in 1..2 : DateShape(v, d, m)

\* the three numeric groups of a matching value
DayOf(v) == CHOOSE g \in {SubSeq(v, 1, d) : d \in 1..2} :
                \E m \in 1..2 : DateShape(v, Len(g), m)
MonthOf(v) == CHOOSE g \in {SubSeq(v, Len(DayOf(v)) + 2, Len(DayOf(v)) + 1 + m) : m \in 1..2} :
                DateShape(v, Len(DayOf(v)), Len(g))
YearStart(v) == Len(DayOf(v)) + Len(MonthOf(v)) + 3
YearOf(v) ==
    LET run == CHOOSE n \in 2..4 :
                  /\ YearStart(v) + n - 1 <= Len(v)
                  /\ AllDigits(SubSeq(v, YearStart(v), YearStart(v) + n - 1))
                  /\ \/ n = 4
                     \/ YearStart(v) + n > Len(v)
                     \/ v[YearStart(v) + n] \notin Digits
    IN SubSeq(v, YearStart(v), YearStart(v) + run - 1)

\* two digits, with a leading zero for a single one
TwoDigits(g) == IF Len(g) = 1 THEN <<"0">> \o g ELSE g

\* YYYY-MM-DD
IsoForm(o) ==
    /\ o # None
    /\ Len(o) = 10
    /\ o[5] = "-" /\ o[8] = "-"
    /\ \A i \in (1..10) \ {5, 8} : o[i] \in Digits

\* day first, month second, 20YY for a year of two digits
DayFirst(v, o) ==
    /\ SubSeq(o, 9, 10) = TwoDigits(DayOf(v))
    /\ SubSeq(o, 6, 7) = TwoDigits(MonthOf(v))
    /\ Len(YearOf(v)) = 2 => SubSeq(o, 1, 4) = <<"2", "0">> \o YearOf(v)
    /\ Len(YearOf(v)) = 4 => SubSeq(o, 1, 4) = YearOf(v)

\* C11: for every input matching D{1,2}[/-]M{1,2}[/-]Y{2,4} normalize_date
\* returns a string of the exact form YYYY-MM-DD, with the first group as
\* the day, the second as the month and a year YY turned into 20YY.
C11_IsoFormat ==
    (DateReturned /\ MatchesDatePattern(value)) =>
        IsoForm(n_out) /\ DayFirst(value, n_out)

\* C11: for a year of two or of four digits the form is YYYY-MM-DD.
C11_IsoFormatYear2Or4 ==
    (DateReturned /\ MatchesDatePattern(value) /\ Len(YearOf(value)) # 3) =>
        IsoForm(n_out) /\ DayFirst(value, n_out)

\* C11: a date with a year of two digits has been normalized.
C11_WitnessYear2 ==
    /\ DateReturned /\ MatchesDatePattern(value)
    /\ Len(YearOf(value)) = 2 /\ Len(DayOf(value)) = 1
    /\ IsoForm(n_out)

D_15_01_2024 == <<"1", "5", "/", "0", "1", "/", "2", "0", "2", "4">>
D_5_3_99 == <<"5", "-", "3", "-", "9", "9">>
ISO_2024_01_15 == <<"2", "0", "2", "4", "-", "0", "1", "-", "1", "5">>
ISO_1999_03_05 == <<"1", "9", "9", "9", "-", "0", "3", "-", "0", "5">>
ISO_2099_03_05 == <<"2", "0", "9", "9", "-", "0", "3", "-", "0", "5">>

\* C12: normalize_date('15/01/2024') returns '2024-01-15' and
\* normalize_date('5-3-99') returns '1999-03-05'.
C12_ReferenceResults ==
    DateReturned =>
        /\ value = D_15_01_2024 => n_out = ISO_2024_01_15
        /\ value = D_5_3_99 => n_out = ISO_1999_03_05

\* C12: the first reference result holds; the second call is reached and
\* gives the year 2099.
C12_FirstReference ==
    (DateReturned /\ value = D_15_01_2024) => n_out = ISO_2024_01_15
C12_WitnessFirst == DateReturned /\ value = D_15_01_2024 /\ n_out = ISO_2024_01_15
C12_WitnessSecond == DateReturned /\ value = D_5_3_99 /\ n_out = ISO_2099_03_05

\* C13 as stated: normalize_date always returns a string, and returns every
\* input string that does not match the date pattern, the empty string
\* included, unchanged.
C13_StringOrUnchanged ==
    DateReturned =>
        /\ n_out # None
        /\ (value # None /\ ~MatchesDatePattern(value)) => n_out = value

\* C13 amended: normalize_date returns None for the empty string and for
\* None; for every other input it returns a string, and the input itself,
\* unchanged, when the input does not match the date pattern at its start.
C13_UnchangedUnlessEmpty ==
    DateReturned =>
        /\ Falsy(value) => n_out = None
        /\ ~Falsy(value) =>
              /\ n_out # None
              /\ ~MatchesDatePattern(value) => n_out = value

\* C13 witness: a value that is not empty and does not start with a date
\* has been returned unchanged.
C13_Witness ==
    /\ DateReturned
    /\ ~Falsy(value)
    /\ ~MatchesDatePattern(value)
    /\ n_out = value

\* C13: the empty string has given None.
C13_WitnessEmpty == DateReturned /\ value = <<>> /\ n_out = None

(***************************************************************************)
(* Properties of the structurer                                            *)
(***************************************************************************)
Structured == st_pc = "returned"

\* the lines of the structured document from top to bottom, each with the
\* number of its block
RECURSIVE FlatFrom(_, _)
FlatFrom(blocks, k) ==
    IF k > Len(blocks) THEN <<>>
    ELSE [j \in 1..Len(blocks[k].lines) |-> [block |-> k, line |-> blocks[k].lines[j]]]
         \o FlatFrom(blocks, k + 1)

Flat == FlatFrom(structured.blocks, 1)

TopOf(bbox) == bbox[2]
BottomOf(bbox) == bbox[4]

\* the input lines have tops 10, 20 and 100 and the first has bottom 30
TopsOfInput == [i \in 1..Len(data.lines) |-> bbox_top(data.lines[i].box)]
ExampleTops ==
    /\ TopsOfInput = <<10, 20, 100>>
    /\ bbox_bottom(data.lines[1].box) = 30

\* C14: with the lines in ascending order of top-y, a line is in the block
\* of the line before it if and only if its top-y minus the bottom-y of that
\* line is strictly less than the threshold 40; otherwise it opens the next
\* block.
C14_GroupingRule ==
    Structured =>
        \A i \in 1..(Len(Flat) - 1) :
            /\ TopOf(Flat[i].line.bbox) <= TopOf(Flat[i + 1].line.bbox)
            /\ (Flat[i + 1].block = Flat[i].block)
                  <=> (TopOf(Flat[i + 1].line.bbox) - BottomOf(Flat[i].line.bbox) < 40)
            /\ Flat[i + 1].block \in {Flat[i].block, Flat[i].block + 1}

\* C14 witness: tops 10 and 20 share the first block and the line at top 100
\* is alone in the second.
C14_Witness ==
    /\ Structured
    /\ ExampleTops
    /\ Len(structured.blocks) = 2
    /\ Len(structured.blocks[1].lines) = 2
    /\ Len(structured.blocks[2].lines) = 1

\* C14: a gap of exactly 40 has opened a new block.
C14_WitnessAtThreshold ==
    /\ Structured
    /\ \E i \in 1..(Len(Flat) - 1) :
          /\ TopOf(Flat[i + 1].line.bbox) - BottomOf(Flat[i].line.bbox) = 40
          /\ Flat[i + 1].block = Flat[i].block + 1

\* the value v is the least (greatest) of the c-th coordinates of the lines
LeastOf(lines, c, v) ==
    /\ \A j \in 1..Len(lines) : v <= lines[j].bbox[c]
    /\ \E j \in 1..Len(lines) : v = lines[j].bbox[c]
GreatestOf(lines, c, v) ==
    /\ \A j \in 1..Len(lines) : v >= lines[j].bbox[c]
    /\ \E j \in 1..Len(lines) : v = lines[j].bbox[c]

\* C15: the bbox of every block is [min left, min top, max right, max bottom]
\* over the bboxes of its lines, so every line of the block lies inside it.
C15_BlockBboxIsUnion ==
    Structured =>
        \A k \in 1..Len(structured.blocks) :
            /\ Len(structured.blocks[k].bbox) = 4
            /\ LeastOf(structured.blocks[k].lines, 1, structured.blocks[k].bbox[1])
            /\ LeastOf(structured.blocks[k].lines, 2, structured.blocks[k].bbox[2])
            /\ GreatestOf(structured.blocks[k].lines, 3, structured.blocks[k].bbox[3])
            /\ GreatestOf(structured.blocks[k].lines, 4, structured.blocks[k].bbox[4])

\* C15 witness: the lines [0,0,10,10] and [5,5,20,20] form a block of bbox
\* [0,0,20,20].
C15_Witness ==
    /\ Structured
    /\ Len(structured.blocks) = 1
    /\ Len(structured.blocks[1].lines) = 2
    /\ structured.blocks[1].lines[1].bbox = <<0, 0, 10, 10>>
    /\ structured.blocks[1].lines[2].bbox = <<5, 5, 20, 20>>
    /\ structured.blocks[1].bbox = <<0, 0, 20, 20>>

\* C15: a block whose middle line reaches further right and further down
\* than its first and its last line.
C15_WitnessMiddle ==
    /\ Structured
    /\ \E k \in 1..Len(structured.blocks) :
          /\ Len(structured.blocks[k].lines) = 3
          /\ structured.blocks[k].lines[2].bbox[3] = structured.blocks[k].bbox[3]
          /\ structured.blocks[k].lines[1].bbox[3] < structured.blocks[k].bbox[3]
          /\ structured.blocks[k].lines[3].bbox[3] < structured.blocks[k].bbox[3]

\* the input is not in ascending order of top-y
InputUnsorted ==
    \E i \in 1..(Len(data.lines) - 1) :
        bbox_top(data.lines[i].box) > bbox_top(data.lines[i + 1].box)

\* C16: block_ids are 1..blocks_count in sequence order, line_ids are
\* 1..(number of lines) within each block, the top-y of block k is not
\* greater than the top-y of block k+1 and within a block line_ids follow
\* ascending top-y, whatever the order of the input lines.
C16_IdsAndOrder ==
    Structured =>
        /\ structured.meta.blocks_count = Len(structured.blocks)
        /\ \A k \in 1..Len(structured.blocks) :
              /\ structured.blocks[k].block_id = k
              /\ \A j \in 1..Len(structured.blocks[k].lines) :
                    structured.blocks[k].lines[j].line_id = j
              /\ \A j \in 1..(Len(structured.blocks[k].lines) - 1) :
                    TopOf(structured.blocks[k].lines[j].bbox)
                       <= TopOf(structured.blocks[k].lines[j + 1].bbox)
        /\ \A k \in 1..(Len(structured.blocks) - 1) :
              TopOf(structured.blocks[k].bbox) <= TopOf(structured.blocks[k + 1].bbox)

\* C16 witness: lines given bottom-up have been structured into two blocks,
\* the first of two lines.
C16_Witness ==
    /\ Structured
    /\ InputUnsorted
    /\ Len(structured.blocks) = 2
    /\ Len(structured.blocks[1].lines) = 2

\* what identifies a line in the input and in the structured document
InputKey(l) ==
    << l.text, l.conf,
       << bbox_left(l.box), bbox_top(l.box), bbox_right(l.box), bbox_bottom(l.box) >> >>
OutputKey(f) == << f.line.text, f.line.confidence, f.line.bbox >>

InputKeys == [i \in 1..Len(data.lines) |-> InputKey(data.lines[i])]
OutputKeys == [i \in 1..Len(Flat) |-> OutputKey(Flat[i])]

Occurrences(q, x) == Cardinality({i \in 1..Len(q) : q[i] = x})

RECURSIVE SumOfLens(_, _)
SumOfLens(blocks, k) ==
    IF k > Len(blocks) THEN 0 ELSE Len(blocks[k].lines) + SumOfLens(blocks, k + 1)

\* C19: every input line is in exactly one block, exactly once; no block is
\* empty; meta.lines_count is the sum of the blocks' line counts and
\* meta.blocks_count the number of blocks; an empty line list gives zero
\* blocks.
C19_Partition ==
    Structured =>
        /\ Len(OutputKeys) = Len(InputKeys)
        /\ \A i \in 1..Len(InputKeys) :
              Occurrences(OutputKeys, InputKeys[i]) = Occurrences(InputKeys, InputKeys[i])
        /\ \A k \in 1..Len(structured.blocks) : Len(structured.blocks[k].lines) > 0
        /\ structured.meta.lines_count = SumOfLens(structured.blocks, 1)
        /\ structured.meta.blocks_count = Len(structured.blocks)
        /\ Len(data.lines) = 0 => Len(structured.blocks) = 0

\* C19 witness: three lines, one of them given twice, in two blocks.
C19_Witness ==
    /\ Structured
    /\ Len(data.lines) = 3
    /\ \E i, j \in 1..3 : i # j /\ data.lines[i] = data.lines[j]
    /\ Len(structured.blocks) = 2

\* C19: the empty line list has given a document without blocks.
C19_WitnessEmpty ==
    /\ Structured
    /\ Len(data.lines) = 0
    /\ structured.blocks = <<>>
    /\ structured.meta.lines_count = 0
    /\ structured.meta.blocks_count = 0

(***************************************************************************)
(* Properties of the batch loops                                           *)
(***************************************************************************)
InProcessImages == b_fn = "process_images"

FilesOf(q) == [i \in 1..Len(q) |-> q[i].file]

\* the documents of the summary, the processed ones first
Recorded == FilesOf(results.processed) \o FilesOf(results.failed)

\* the loop has been entered and left
LoopOver == idx > 0 /\ b_pc \in {"summary", "returned", "raised", "exited"}

\* C17: in process_images over a non-empty image set a failure on one
\* document (load error, quality-gate rejection, OCR or write exception)
\* never stops the loop: while the loop runs every document before the
\* current one is recorded exactly once and no other, and the loop is left
\* only behind the last document, with every document exactly once in
\* exactly one of 'processed' and 'failed' and
\* len(processed) + len(failed) == total.
C17_FailureIsolation ==
    InProcessImages =>
        /\ b_pc = "loop" =>
              /\ idx \in 1..Len(all_images)
              /\ \A i \in 1..Len(all_images) :
                    Occurrences(Recorded, all_images[i]) = IF i < idx THEN 1 ELSE 0
        /\ LoopOver =>
              /\ idx = Len(all_images) + 1
              /\ \A i \in 1..Len(all_images) :
                    Occurrences(Recorded, all_images[i]) = 1
              /\ Len(results.processed) + Len(results.failed) = results.total
              /\ results.total = Len(all_images)

\* C17 witness: the first of three documents failed and the two after it
\* were processed.
C17_Witness ==
    /\ InProcessImages
    /\ b_pc = "summary"
    /\ Len(all_images) = 3
    /\ FilesOf(results.failed) = <<all_images[1]>>
    /\ FilesOf(results.processed) = <<all_images[2], all_images[3]>>

\* C17: each kind of failure is followed by a processed document.
C17_WitnessKinds ==
    /\ InProcessImages
    /\ b_pc = "summary"
    /\ Len(results.failed) = 2
    /\ Len(results.processed) = 1
    /\ results.processed[1].file = all_images[3]
    /\ {results.failed[1].reason, results.failed[2].reason} = {"quality", "ocr"}

C17_WitnessLoadAndWrite ==
    /\ InProcessImages
    /\ b_pc = "summary"
    /\ Len(results.failed) = 2
    /\ Len(results.processed) = 1
    /\ results.processed[1].file = all_images[3]
    /\ {results.failed[1].reason, results.failed[2].reason} = {"load", "write"}

\* C17, the loop of process_orange_factures: every image is counted once,
\* as ok or as error.
C17_OrangeLoop ==
    (b_fn = "process_orange_factures" /\ LoopOver) =>
        /\ stats.total = Len(all_images)
        /\ stats.ok + stats.error = stats.total
        /\ Len(all_decisions) = stats.ok

\* C17: a loop that runs reaches its end.
C17_LoopEnds == (b_pc = "loop") ~> (b_pc = "summary")

\* what makes a run a failure: a failed document, no input folder, no image
NotClean == Len(results.failed) > 0 \/ ~b_exists \/ Len(all_images) = 0

\* C18: process_images returns True, and the process exits with status 0,
\* only if the failed set is empty at the end of the run; a failed
\* document, a missing input directory or an empty image set gives False
\* and a status other than 0.
C18_SuccessOnlyIfClean ==
    InProcessImages =>
        /\ b_ret = "True" => (~NotClean /\ LoopOver)
        /\ exit_status = "0" => b_ret = "True"
        /\ (b_pc = "returned" /\ NotClean) => b_ret = "False"
        /\ (b_pc = "exited" /\ NotClean) => exit_status = "1"

\* C18 witness: a run with a processed and a failed document has exited
\* with status 1.
C18_Witness ==
    /\ InProcessImages
    /\ b_pc = "exited"
    /\ Len(results.processed) > 0
    /\ Len(results.failed) > 0
    /\ b_ret = "False"
    /\ exit_status = "1"

\* C18: a clean run has exited with status 0; a missing folder and an empty
\* folder have given False.
C18_WitnessSuccess ==
    /\ InProcessImages /\ b_pc = "exited" /\ exit_status = "0"
    /\ Len(results.processed) = MaxImages
C18_WitnessMissing ==
    InProcessImages /\ b_pc = "exited" /\ ~b_exists /\ exit_status = "1"
C18_WitnessEmpty ==
    /\ InProcessImages /\ b_pc = "exited" /\ b_exists /\ all_images = <<>>
    /\ b_ret = "False" /\ exit_status = "1"

====
